---- MODULE Spec2Model ----
(***************************************************************************)
(* Transfer_Learning_Solution.ipynb: the notebook's own orchestration code *)
(* as state machines.                                                      *)
(*   Spec       feature extraction loop, cache write, cache reload and     *)
(*              label encoding cells                                       *)
(*   SpecSplit  the train / validation / test split cell                   *)
(*   SpecTrain  get_batches, the training loop, the test and the           *)
(*              prediction cells                                           *)
(*   SpecAcquire  the two download cells                                   *)
(* The pretrained network, numpy, csv and scikit-learn are modelled by     *)
(* what the called operations return.                                      *)
(***************************************************************************)
EXTENDS Integers, Sequences, FiniteSets, TLC

\* ------------------------------------------------------------------ bounds
MaxFiles == 3
MaxBatchSize == 3
MaxDim == 2
MaxPerClass == 4
PickSlack == 0
MaxPermLen == 3
MaxEpochs == 2
MaxNBatches == 7
MaxCellRuns == 3
MaxEarlier == 2

\* ------------------------------------------------------- sequence helpers
Range(s) == {s[i] : i \in 1..Len(s)}

RECURSIVE SumSeq(_)
SumSeq(s) == IF s = <<>> THEN 0 ELSE Head(s) + SumSeq(Tail(s))

RECURSIVE Concat(_)
\* np.concatenate of a sequence of arrays along axis 0; row-major flattening
Concat(ss) == IF ss = <<>> THEN <<>> ELSE Head(ss) \o Concat(Tail(ss))

Injective(s) == \A i, j \in 1..Len(s) : s[i] = s[j] => i = j

\* the elements of a finite set of integers in ascending order
RECURSIVE Ascending(_)
Ascending(S) ==
    IF S = {} THEN <<>>
    ELSE LET m == CHOOSE x \in S : \A z \in S : x <= z
         IN  <<m>> \o Ascending(S \ {m})

Reverse(s) == [i \in 1..Len(s) |-> s[Len(s) + 1 - i]]

\* all sequences without repetition over S, of length at most n
RECURSIVE Arrangements(_, _)
Arrangements(S, n) ==
    IF n = 0 THEN {<<>>}
    ELSE {<<>>} \cup UNION {{<<x>> \o t : t \in Arrangements(S \ {x}, n - 1)} : x \in S}

\* -------------------------------------------------------------- the data
\* directory names under flower_photos/, in sorted order (the order
\* LabelBinarizer's classes_ uses)
ClassNames == <<"daisy", "roses", "tulips">>

NameRank(name) == CHOOSE k \in 1..Len(ClassNames) : ClassNames[k] = name

\* an image file is identified by its class directory and its 1-based
\* position in that directory's listing
Image(c, f) == [cls |-> c, pos |-> f]

ImageId(img) == NameRank(img.cls) + Len(ClassNames) * (img.pos - 1)

\* sess.run(vgg.relu6, ...) on one image: a row of dim float32 values, a
\* fixed function of the image; all values differ between images and
\* between columns
Relu6Row(img, dim) == [k \in 1..dim |-> ImageId(img) * dim + (k - 1)]

\* sess.run(vgg.relu6, feed_dict={input_: images}): one row per image of
\* the batch, in batch order
Relu6(images, dim) == [k \in 1..Len(images) |-> Relu6Row(images[k], dim)]

VARIABLES
    pc,          \* position in the notebook's cells (Spec)
    classes,     \* classes: directory listing of data_dir
    nfiles,      \* len(os.listdir(class_path)) for each class
    batch_size,  \* batch_size of the extraction cell
    code_dim,    \* width of the extractor's output
    ci,          \* index in classes of `each`, 0 before the loop
    ii,          \* ii of enumerate(files, 1), 0 before the first file
    batch,       \* batch: images collected for the next sess.run
    labels,      \* labels: python list
    codes,       \* codes: None or the array of rows
    runs,        \* the image batches passed to sess.run, in call order
    codes_file,  \* file 'codes': absent or the flat float32 sequence
    labels_file, \* file 'labels': absent or its lines
    labels_arr,  \* labels after the reload cell (numpy array)
    codes_arr,   \* codes after the reload cell (numpy array)
    labels_vecs, \* labels_vecs of the label encoding cell
    train_idx,   \* train_idx, val_idx, test_idx of the split cell: 0-based
    val_idx,     \*   indices into codes and labels_vecs
    test_idx,
    train_x,     \* codes[train_idx], labels_vecs[train_idx] and so on
    train_y,
    val_x,
    val_y,
    test_x,
    test_y,
    epochs,      \* epochs of the training cell
    n_batches,   \* n_batches of get_batches
    epoch,       \* e of `for e in range(epochs)`
    iteration,   \* iteration
    gen_k,       \* how many values of its range get_batches has consumed
    batch_x,     \* x, y of the training loop: the minibatch get_batches
    batch_y,     \*   yielded last
    params,      \* the session's variables: NoParams before
                 \*   global_variables_initializer, then the number of
                 \*   optimizer updates applied since
    steps,       \* the feeds of sess.run([cost, optimizer]), in call order
    val_log,     \* the feeds of sess.run(accuracy) in the training loop
    checkpoint,  \* checkpoints/flowers.ckpt: NoParams or the saved params
    restored,    \* the variables of the session of the test and the
                 \*   prediction cells: NoParams or what saver.restore loaded
    eval_log,    \* the feeds of sess.run(accuracy) and sess.run(predicted)
                 \*   of those cells, with the variables they ran on
    vgg_dir,     \* directory tensorflow_vgg/ exists
    vgg_npy,     \* tensorflow_vgg/vgg16.npy: "absent", "partial", "complete"
    archive,     \* flower_photos.tar.gz: "absent", "partial", "complete"
    photos,      \* directory flower_photos: "absent", "partial", "complete"
    imported,    \* isfile, isdir, urlretrieve, tqdm have been imported
    last_cell,   \* the download cell run last: what it did, how it ended
    cell_runs    \* how many times a download cell has been run

dataVars == <<classes, nfiles, batch_size, code_dim>>
loopVars == <<ci, ii, batch, labels, codes, runs>>
cacheVars == <<codes_file, labels_file, labels_arr, codes_arr, labels_vecs>>
splitVars == <<train_idx, val_idx, test_idx, train_x, train_y, val_x, val_y,
               test_x, test_y>>

trainVars == <<epochs, n_batches, epoch, iteration, gen_k, batch_x, batch_y,
               params, steps, val_log, checkpoint>>
evalVars == <<restored, eval_log>>
acqVars == <<vgg_dir, vgg_npy, archive, photos, imported, last_cell, cell_runs>>

vars == <<pc, dataVars, loopVars, cacheVars, splitVars, trainVars, evalVars,
          acqVars>>

\* variables that hold no value: a session before
\* global_variables_initializer or saver.restore, a checkpoint directory
\* without a checkpoint
NoParams == -1

\* codes = None, and codes as an array of rows
None == [none |-> TRUE, rows |-> <<>>]
Rows(rows) == [none |-> FALSE, rows |-> rows]

\* a numpy array: its shape and its elements (rows when 2-D, flat otherwise)
Array(shape, data) == [shape |-> shape, data |-> data]
Unset == [shape |-> <<-1>>, data |-> <<>>]

Absent == [exists |-> FALSE, content |-> <<>>]
File(content) == [exists |-> TRUE, content |-> content]

\* ------------------------------------------------------- download cells
\* a check that never finds the file
IsFileNever(f) == FALSE

\* os.path.isfile, os.path.isdir on a path in one of the three states
IsFile(f) == f # "absent"
IsDir(d) == d # "absent"

\* urlretrieve(url, filename): the file it leaves is complete, or cut
\* short (the connection broke while reading), or was never created (the
\* URL could not be opened)
Retrieved == {"complete", "partial", "absent"}
RetrieveError(f) ==
    IF f = "complete" THEN ""
    ELSE IF f = "partial" THEN "ContentTooShortError" ELSE "URLError"

\* tarfile.open(...).extractall() on the archive: the directory it leaves
Extracted(a) == IF a = "complete" THEN {"complete"} ELSE {"absent", "partial"}
ExtractError(d) == IF d = "complete" THEN "" ELSE "ReadError"

CellRecord(cell, ops, error) == [cell |-> cell, ops |-> ops, error |-> error]

\* the first cell without its isdir(vgg_dir) check: urlretrieve opens the
\* URL, then fails to create the file in the missing directory
VggCellUnchecked ==
    /\ cell_runs < MaxCellRuns
    /\ cell_runs' = cell_runs + 1
    /\ imported' = TRUE
    /\ IF IsFile(vgg_npy)
       THEN /\ last_cell' = CellRecord("vgg", <<>>, "")
            /\ UNCHANGED vgg_npy
       ELSE \E f \in Retrieved :
              /\ vgg_npy' = IF vgg_dir THEN f ELSE "absent"
              /\ last_cell' = CellRecord("vgg", <<"download">>,
                                IF vgg_dir THEN RetrieveError(f)
                                ELSE "FileNotFoundError")
    /\ UNCHANGED <<pc, dataVars, loopVars, cacheVars, splitVars, trainVars,
                   evalVars, vgg_dir, archive, photos>>

\* the first cell: the imports, the check that tensorflow_vgg/ exists, the
\* download of vgg16.npy unless the file exists
VggCell ==
    /\ cell_runs < MaxCellRuns
    /\ cell_runs' = cell_runs + 1
    /\ imported' = TRUE
    /\ IF ~vgg_dir
       THEN /\ last_cell' = CellRecord("vgg", <<>>, "VGG directory doesn't exist!")
            /\ UNCHANGED vgg_npy
       ELSE IF IsFile(vgg_npy)
       THEN /\ last_cell' = CellRecord("vgg", <<>>, "")
            /\ UNCHANGED vgg_npy
       ELSE \E f \in Retrieved :
              /\ vgg_npy' = f
              /\ last_cell' = CellRecord("vgg", <<"download">>, RetrieveError(f))
    /\ UNCHANGED <<pc, dataVars, loopVars, cacheVars, splitVars, trainVars,
                   evalVars, vgg_dir, archive, photos>>

\* the dataset cell: the download of flower_photos.tar.gz unless the file
\* exists, then its extraction unless the directory flower_photos exists;
\* isfile and isdir are the names the first cell imported
FlowersCell ==
    /\ cell_runs < MaxCellRuns
    /\ cell_runs' = cell_runs + 1
    /\ IF ~imported
       THEN /\ last_cell' = CellRecord("flowers", <<>>, "NameError")
            /\ UNCHANGED <<archive, photos>>
       ELSE \E f \in IF IsFile(archive) THEN {archive} ELSE Retrieved :
              LET fetch == IF IsFile(archive) THEN <<>> ELSE <<"download">>
              IN  /\ archive' = f
                  /\ IF RetrieveError(f) # "" /\ fetch # <<>>
                     THEN /\ last_cell' = CellRecord("flowers", fetch, RetrieveError(f))
                          /\ UNCHANGED photos
                     ELSE IF IsDir(photos)
                     THEN /\ last_cell' = CellRecord("flowers", fetch, "")
                          /\ UNCHANGED photos
                     ELSE \E d \in Extracted(f) :
                            /\ photos' = d
                            /\ last_cell' = CellRecord("flowers",
                                   fetch \o <<"extract">>, ExtractError(d))
    /\ UNCHANGED <<pc, dataVars, loopVars, cacheVars, splitVars, trainVars,
                   evalVars, vgg_dir, vgg_npy, imported>>

\* both cells have run and left the parameter file and the dataset
Downloaded ==
    /\ vgg_dir = TRUE
    /\ vgg_npy = "complete"
    /\ archive = "complete"
    /\ photos = "complete"
    /\ imported = TRUE
    /\ last_cell = CellRecord("flowers", <<"download", "extract">>, "")
    /\ cell_runs = 2

\* ---------------------------------------------- feature extraction cell
\* the datasets: a listing of class directories in any order, each with
\* 0..MaxFiles files
Datasets ==
    {[dirs |-> d, counts |-> n] :
        d \in Arrangements(Range(ClassNames), Len(ClassNames)),
        n \in UNION {[1..k -> 0..MaxFiles] : k \in 0..Len(ClassNames)}}

\* the training cell has not run; its configuration
NoTraining ==
    /\ epochs = 0
    /\ n_batches = 0
    /\ epoch = 0
    /\ iteration = 0
    /\ gen_k = 0
    /\ batch_x = <<>>
    /\ batch_y = <<>>
    /\ params = NoParams
    /\ steps = <<>>
    /\ val_log = <<>>
    /\ checkpoint = NoParams
    /\ restored = NoParams
    /\ eval_log = <<>>

\* nothing has been split yet
NoSplit ==
    /\ train_idx = <<>>
    /\ val_idx = <<>>
    /\ test_idx = <<>>
    /\ train_x = <<>>
    /\ train_y = <<>>
    /\ val_x = <<>>
    /\ val_y = <<>>
    /\ test_x = <<>>
    /\ test_y = <<>>

\* nothing has been extracted, written or reloaded yet
NoExtraction ==
    /\ ci = 0
    /\ ii = 0
    /\ batch = <<>>
    /\ labels = <<>>
    /\ codes = None
    /\ runs = <<>>
    /\ labels_arr = Unset
    /\ codes_arr = Unset
    /\ labels_vecs = <<>>

\* the condition on a position counted from 0
SubmitNowZeroBased(pos, bs, n) == (pos - 1) % bs = 0 \/ pos = n

\* the condition without its end-of-listing disjunct
SubmitNowFullOnly(pos, bs, n) == pos % bs = 0

\* if ii % batch_size == 0 or ii == len(files)
SubmitNow(pos, bs, n) == pos % bs = 0 \/ pos = n

\* the arguments of np.concatenate in the other order
AccumulateInFront(old, codes_batch) ==
    IF old.none THEN Rows(codes_batch) ELSE Rows(codes_batch \o old.rows)

\* codes = codes_batch if codes is None else np.concatenate((codes, codes_batch))
Accumulate(old, codes_batch) ==
    IF old.none THEN Rows(codes_batch) ELSE Rows(old.rows \o codes_batch)

\* for each in classes: the next class; files = os.listdir(class_path)
NextClass ==
    /\ pc = "class_loop"
    /\ ci < Len(classes)
    /\ ci' = ci + 1
    /\ ii' = 0
    /\ pc' = "file_loop"
    /\ UNCHANGED <<dataVars, batch, labels, codes, runs, cacheVars, splitVars,
                   trainVars, evalVars, acqVars>>

\* the loop over classes is exhausted: the cell ends
ExtractionDone ==
    /\ pc = "class_loop"
    /\ ci = Len(classes)
    /\ pc' = "extracted"
    /\ UNCHANGED <<dataVars, loopVars, cacheVars, splitVars, trainVars, evalVars, acqVars>>

\* for ii, file in enumerate(files, 1): load the image, batch.append,
\* labels.append
AddImage ==
    /\ pc = "file_loop"
    /\ ii < nfiles[ci]
    /\ ii' = ii + 1
    /\ batch' = Append(batch, Image(classes[ci], ii + 1))
    /\ labels' = Append(labels, classes[ci])
    /\ pc' = "check"
    /\ UNCHANGED <<dataVars, ci, codes, runs, cacheVars, splitVars, trainVars, evalVars, acqVars>>

\* utils.load_image raises on the next file (unreadable, or not an image):
\* the exception leaves the cell before batch.append and labels.append
LoadFails ==
    /\ pc = "file_loop"
    /\ ii < nfiles[ci]
    /\ ii' = ii + 1
    /\ pc' = "extract_failed"
    /\ UNCHANGED <<dataVars, ci, batch, labels, codes, runs, cacheVars,
                   splitVars, trainVars, evalVars, acqVars>>

\* the loop over the class's files is exhausted
ClassDone ==
    /\ pc = "file_loop"
    /\ ii = nfiles[ci]
    /\ pc' = "class_loop"
    /\ UNCHANGED <<dataVars, loopVars, cacheVars, splitVars, trainVars, evalVars, acqVars>>

\* the if-branch without `batch = []`
RunBatchKeepsBatch ==
    /\ pc = "check"
    /\ SubmitNow(ii, batch_size, nfiles[ci])
    /\ runs' = Append(runs, [each |-> classes[ci], images |-> batch])
    /\ codes' = Accumulate(codes, Relu6(batch, code_dim))
    /\ pc' = "file_loop"
    /\ UNCHANGED <<dataVars, ci, ii, batch, labels, cacheVars, splitVars, trainVars,
                   evalVars, acqVars>>

\* np.concatenate(batch) or sess.run(vgg.relu6) raises (out of memory): the
\* exception leaves the cell with the batch still pending
RunFails ==
    /\ pc = "check"
    /\ SubmitNow(ii, batch_size, nfiles[ci])
    /\ pc' = "run_failed"
    /\ UNCHANGED <<dataVars, loopVars, cacheVars, splitVars, trainVars, evalVars,
                   acqVars>>

\* the if-branch: run the batch through the network, extend codes, reset
\* batch
RunBatch ==
    /\ pc = "check"
    /\ SubmitNow(ii, batch_size, nfiles[ci])
    /\ runs' = Append(runs, [each |-> classes[ci], images |-> batch])
    /\ codes' = Accumulate(codes, Relu6(batch, code_dim))
    /\ batch' = <<>>
    /\ pc' = "file_loop"
    /\ UNCHANGED <<dataVars, ci, ii, labels, cacheVars, splitVars, trainVars, evalVars, acqVars>>

\* the if-condition is false: on to the next file
SkipBatch ==
    /\ pc = "check"
    /\ ~SubmitNow(ii, batch_size, nfiles[ci])
    /\ pc' = "file_loop"
    /\ UNCHANGED <<dataVars, loopVars, cacheVars, splitVars, trainVars, evalVars, acqVars>>

\* ------------------------------------------------------ cache write cell
\* codes.tofile(f): the rows' float32 values, flat, in row-major order
ToFile(rows) == Concat(rows)

\* csv.writer(f, delimiter='\n').writerow(labels): the fields joined by the
\* delimiter, then the line terminator '\r\n'; the text as a sequence of
\* tokens (a field, "\n" or "\r\n")
RECURSIVE JoinFields(_)
JoinFields(fields) ==
    IF fields = <<>> THEN <<>>
    ELSE IF Len(fields) = 1 THEN <<fields[1]>>
    ELSE <<Head(fields), "\n">> \o JoinFields(Tail(fields))

WriteRow(fields) == JoinFields(fields) \o <<"\r\n">>

\* with open('codes', 'w') ...: codes.tofile(f); then the labels file.
\* codes is None when no batch was ever run: codes.tofile raises after
\* open() has created an empty 'codes', and 'labels' is not written
WriteCache ==
    /\ pc = "extracted"
    /\ IF codes.none
       THEN /\ codes_file' = File(<<>>)
            /\ UNCHANGED labels_file
            /\ pc' = "write_failed"
       ELSE /\ codes_file' = File(ToFile(codes.rows))
            /\ labels_file' = File(WriteRow(labels))
            /\ pc' = "written"
    /\ UNCHANGED <<dataVars, loopVars, labels_arr, codes_arr, labels_vecs,
                   splitVars, trainVars, evalVars, acqVars>>

\* ----------------------------------------------------- cache reload cell
IsNewline(tok) == tok \in {"\n", "\r\n"}

\* the rows csv.reader yields from the text: one per line, a line without
\* a field giving the empty row
RECURSIVE ReaderRows(_, _)
ReaderRows(text, row) ==
    IF text = <<>> THEN (IF row = <<>> THEN <<>> ELSE <<row>>)
    ELSE IF IsNewline(Head(text)) THEN <<row>> \o ReaderRows(Tail(text), <<>>)
    ELSE ReaderRows(Tail(text), Append(row, Head(text)))

\* np.array of a list of rows of one field each: shape (n, 1), or (0,) for
\* the empty list
NpArray(rows) ==
    IF rows = <<>> THEN Array(<<0>>, <<>>)
    ELSE Array(<<Len(rows), 1>>, Concat(rows))

\* ndarray.squeeze(): every axis of length 1 is removed
Squeeze(arr) == Array(SelectSeq(arr.shape, LAMBDA d : d # 1), arr.data)

\* labels = np.array([each for each in reader if len(each) > 0]).squeeze()
ReadLabels(text) ==
    Squeeze(NpArray(SelectSeq(ReaderRows(text, <<>>), LAMBDA r : Len(r) > 0)))

\* len(labels) raises TypeError on a 0-d array
LenDefined(arr) == arr.shape # <<>>
NpLen(arr) == arr.shape[1]

\* flat.reshape((n, -1)) raises ValueError unless n > 0 divides the size
ReshapeDefined(flat, n) == n > 0 /\ Len(flat) % n = 0

Reshape(flat, n) ==
    LET d == Len(flat) \div n
    IN  Array(<<n, d>>, [i \in 1..n |-> SubSeq(flat, (i - 1) * d + 1, i * d)])

\* codes = np.fromfile(f, dtype=np.float32); codes = codes.reshape(...):
\* when len() or reshape raises, codes stays the flat array
ReadCodes(flat, labs) ==
    IF LenDefined(labs) /\ ReshapeDefined(flat, NpLen(labs))
    THEN Reshape(flat, NpLen(labs))
    ELSE Array(<<Len(flat)>>, flat)

\* the reload cell, run after the cache write cell whether or not that one
\* raised; open('labels') raises when the file does not exist
ReadCache ==
    /\ pc \in {"written", "write_failed"}
    /\ IF labels_file.exists
       THEN /\ labels_arr' = ReadLabels(labels_file.content)
            /\ codes_arr' = ReadCodes(codes_file.content, labels_arr')
            /\ pc' = IF Len(codes_arr'.shape) = 2 THEN "reloaded"
                     ELSE "reload_failed"
       ELSE /\ pc' = "reload_failed"
            /\ UNCHANGED <<labels_arr, codes_arr>>
    /\ UNCHANGED <<dataVars, loopVars, codes_file, labels_file, labels_vecs,
                   splitVars, trainVars, evalVars, acqVars>>

\* --------------------------------------------------- label encoding cell
\* lb.fit(labels): classes_ is the sorted sequence of the distinct labels
FitClasses(labs) == SelectSeq(ClassNames, LAMBDA n : n \in Range(labs))

OneHot(k, width) == [j \in 1..width |-> IF j = k THEN 1 ELSE 0]

IndexOf(seq, x) == CHOOSE k \in 1..Len(seq) : seq[k] = x

\* lb.transform(labels) (sklearn label_binarize): a single zero column for
\* one class, a single 0/1 column (1 for classes_[1]) for two classes, and
\* the indicator matrix for three or more
Binarize(fitted, lab) ==
    IF Len(fitted) = 1 THEN <<0>>
    ELSE IF Len(fitted) = 2 THEN <<IndexOf(fitted, lab) - 1>>
    ELSE OneHot(IndexOf(fitted, lab), Len(fitted))

Transform(labs) == [i \in 1..Len(labs) |-> Binarize(FitClasses(labs), labs[i])]

EncodeLabels ==
    /\ pc = "reloaded"
    /\ labels_vecs' = Transform(labels_arr.data)
    /\ pc' = "encoded"
    /\ UNCHANGED <<dataVars, loopVars, codes_file, labels_file, labels_arr,
                   codes_arr, splitVars, trainVars, evalVars, acqVars>>

\* ------------------------------------------------------------ split cell
\* 1 / test_size of StratifiedShuffleSplit(n_splits=1, test_size=0.2)
TestSizeInv == 5

\* n_test = ceil(test_size * n_samples); n_train is the rest
NTest(n) == (n + TestSizeInv - 1) \div TestSizeInv

RECURSIVE SumOver(_, _)
SumOver(S, f) ==
    IF S = {} THEN 0
    ELSE LET x == CHOOSE z \in S : TRUE IN f[x] + SumOver(S \ {x}, f)

\* the samples (0-based) whose label row is r
Members(y, r) == {i \in 0..(Len(y) - 1) : y[i + 1] = r}

\* the k smallest elements of S
First(S, k) == {x \in S : Cardinality({z \in S : z < x}) < k}

\* sklearn's _approximate_mode: the per-class numbers of a draw of n_draws
\* samples: the floor of the proportional share, the draws left over going
\* to the classes with the largest remainders (ties broken at random)
ApproximateMode(y, n_draws) ==
    LET rows == Range(y)
        share == [r \in rows |-> Cardinality(Members(y, r)) * n_draws]
        floored == [r \in rows |-> share[r] \div Len(y)]
        need == n_draws - SumOver(rows, floored)
    IN  {[r \in rows |-> floored[r] + (IF r \in E THEN 1 ELSE 0)] :
            E \in {X \in SUBSET rows :
                     /\ Cardinality(X) = need
                     /\ \A r \in X, q \in rows \ X :
                          share[r] % Len(y) >= share[q] % Len(y)}}

\* the orders in which the splitter's permutation may return a set of
\* indices: every order for a set of at most MaxPermLen indices, the
\* ascending and the descending order for a larger one
Orders(S) ==
    IF Cardinality(S) <= MaxPermLen
    THEN {p \in Arrangements(S, Cardinality(S)) : Len(p) = Cardinality(S)}
    ELSE {Ascending(S), Reverse(Ascending(S))}

\* the holdout sets with t[r] samples of each class r, each class's samples
\* taken among its first t[r] + PickSlack ones
HoldoutSets(y, t) ==
    LET pool == UNION {First(Members(y, r), t[r] + PickSlack) : r \in Range(y)}
    IN  {H \in SUBSET pool :
            \A r \in Range(y) : Cardinality(H \cap Members(y, r)) = t[r]}

\* ss.split raises ValueError for a class with fewer than 2 samples and
\* for a train or test size below the number of classes
SplitterDefined(y) ==
    /\ Len(y) > 0
    /\ \A r \in Range(y) : Cardinality(Members(y, r)) >= 2
    /\ NTest(Len(y)) >= Cardinality(Range(y))
    /\ Len(y) - NTest(Len(y)) >= Cardinality(Range(y))

\* next(ss.split(codes, labels_vecs)): a permuted stratified holdout of
\* n_test indices and the permuted rest
SplitterOutputs(y) ==
    LET all == 0..(Len(y) - 1)
        kept == ApproximateMode(y, Len(y) - NTest(Len(y)))
        tests == {[r \in Range(y) |-> Cardinality(Members(y, r)) - a[r]] : a \in kept}
        sets == UNION {HoldoutSets(y, t) : t \in tests}
    IN  UNION {{[train |-> tr, test |-> te] : tr \in Orders(all \ H), te \in Orders(H)} :
                 H \in sets}

\* the half rounded up
HalfValLenUp(holdout) == (Len(holdout) + 1) \div 2

\* half_val_len = int(len(val_idx)/2)
HalfValLen(holdout) == Len(holdout) \div 2

\* the second slice starting one index late
SecondPartLate(holdout, half) == SubSeq(holdout, half + 2, Len(holdout))

\* val_idx[:half_val_len] and val_idx[half_val_len:]
FirstPart(holdout, half) == SubSeq(holdout, 1, half)
SecondPart(holdout, half) == SubSeq(holdout, half + 1, Len(holdout))

\* arr[idx] for an index array idx
Take(arr, idx) == [k \in 1..Len(idx) |-> arr[idx[k] + 1]]

\* the split cell; it may be run again on the same arrays
SplitCell ==
    /\ pc \in {"encoded", "split"}
    /\ IF ~SplitterDefined(labels_vecs)
       THEN /\ pc' = "split_failed"
            /\ UNCHANGED splitVars
       ELSE \E out \in SplitterOutputs(labels_vecs) :
              LET half == HalfValLen(out.test)
              IN  /\ train_idx' = out.train
                  /\ val_idx' = FirstPart(out.test, half)
                  /\ test_idx' = SecondPart(out.test, half)
                  /\ train_x' = Take(codes_arr.data, train_idx')
                  /\ train_y' = Take(labels_vecs, train_idx')
                  /\ val_x' = Take(codes_arr.data, val_idx')
                  /\ val_y' = Take(labels_vecs, val_idx')
                  /\ test_x' = Take(codes_arr.data, test_idx')
                  /\ test_y' = Take(labels_vecs, test_idx')
                  /\ pc' = "split"
    /\ UNCHANGED <<dataVars, loopVars, cacheVars, trainVars, evalVars, acqVars>>

\* the listing order and file counts of the arrays the split cell is run
\* on: 1 to 3 classes of 1..MaxPerClass files, and the 2 x 20 example
SplitDatasets ==
    {[dirs |-> SubSeq(ClassNames, 1, Len(n)), counts |-> n] :
        n \in (UNION {[1..k -> 1..MaxPerClass] : k \in 1..Len(ClassNames)})
              \cup {<<20, 20>>}}

\* what the extraction loop leaves in labels, and the images in row order
ExtractedLabels(dirs, counts) ==
    Concat([c \in 1..Len(dirs) |-> [f \in 1..counts[c] |-> dirs[c]]])

ExtractedImages(dirs, counts) ==
    Concat([c \in 1..Len(dirs) |-> [f \in 1..counts[c] |-> Image(dirs[c], f)]])

\* the state after the extraction, cache and encoding cells have run on a
\* dataset with batch_size = 1 and a 1-wide extractor output
Encoded(dirs, counts) ==
    /\ classes = dirs
    /\ nfiles = counts
    /\ batch_size = 1
    /\ code_dim = 1
    /\ ci = Len(dirs)
    /\ ii = counts[Len(dirs)]
    /\ batch = <<>>
    /\ labels = ExtractedLabels(dirs, counts)
    /\ codes = Rows(Relu6(ExtractedImages(dirs, counts), 1))
    /\ runs = [k \in 1..Len(labels) |->
                 [each |-> labels[k], images |-> <<ExtractedImages(dirs, counts)[k]>>]]
    /\ codes_file = File(ToFile(codes.rows))
    /\ labels_file = File(WriteRow(labels))
    /\ labels_arr = Array(<<Len(labels)>>, labels)
    /\ codes_arr = Array(<<Len(labels), 1>>, codes.rows)
    /\ labels_vecs = Transform(labels)

InitSplit ==
    /\ \E ds \in {x \in SplitDatasets : SumSeq(x.counts) >= 2} :
          Encoded(ds.dirs, ds.counts)
    /\ pc = "encoded"
    /\ NoSplit
    /\ NoTraining
    /\ Downloaded

SpecSplit == InitSplit /\ [][SplitCell]_vars

\* --------------------------------------------- get_batches, training cell
\* epochs = 10
Epochs == 10

\* def get_batches(x, y, n_batches=10)
DefaultNBatches == 10

\* if iteration % 5 == 0
ValEvery == 5

\* batch_size = len(x)//n_batches
GenBatchSize(len, nb) == len \div nb

\* range(0, n_batches*batch_size, batch_size) raises ValueError for a zero
\* step
RangeDefined(len, nb) == GenBatchSize(len, nb) # 0

\* the k-th value (k = 0, 1, ...) of the range, which has n_batches values
RangeValue(len, nb, k) == k * GenBatchSize(len, nb)

\* a range that stops one value short
RangeLenShort(len, nb) == nb - 1

RangeLen(len, nb) == nb

\* arr[lo:hi] and arr[lo:] for 0 <= lo
Slice(arr, lo, hi) ==
    SubSeq(arr, lo + 1, IF hi < Len(arr) THEN hi ELSE Len(arr))
SliceFrom(arr, lo) == SubSeq(arr, lo + 1, Len(arr))

\* a last batch of batch_size rows like the others: the rest is dropped
YieldedFullOnly(arr, nb, pos) ==
    Slice(arr, pos, pos + GenBatchSize(Len(arr), nb))

\* the X (or Y) get_batches yields for the range value pos: a slice of
\* batch_size rows, or the rest of the data on the last batch
Yielded(arr, nb, pos) ==
    IF pos # (nb - 1) * GenBatchSize(Len(arr), nb)
    THEN Slice(arr, pos, pos + GenBatchSize(Len(arr), nb))
    ELSE SliceFrom(arr, pos)

\* the check before the counter is incremented
ValDueEarly(it) == (it - 1) % ValEvery = 0

\* if iteration % 5 == 0
ValDue(it) == it % ValEvery = 0

\* epochs = 10; iteration = 0; saver; sess.run(global_variables_initializer())
TrainStart ==
    /\ pc = "split"
    /\ epoch' = 0
    /\ iteration' = 0
    /\ params' = 0
    /\ pc' = "epoch_loop"
    /\ UNCHANGED <<dataVars, loopVars, cacheVars, splitVars, epochs, n_batches,
                   gen_k, batch_x, batch_y, steps, val_log, checkpoint, evalVars, acqVars>>

\* for e in range(epochs): the next epoch calls get_batches(train_x, train_y)
EpochStart ==
    /\ pc = "epoch_loop"
    /\ epoch < epochs
    /\ gen_k' = 0
    /\ pc' = "batch_loop"
    /\ UNCHANGED <<dataVars, loopVars, cacheVars, splitVars, epochs, n_batches,
                   epoch, iteration, batch_x, batch_y, params, steps, val_log,
                   checkpoint, evalVars, acqVars>>

\* the generator's first step finds batch_size = 0: range() raises, the
\* exception leaves the cell and nothing is saved
BatchesRaise ==
    /\ pc = "batch_loop"
    /\ ~RangeDefined(Len(train_x), n_batches)
    /\ pc' = "train_failed"
    /\ UNCHANGED <<dataVars, loopVars, cacheVars, splitVars, trainVars, evalVars, acqVars>>

\* for x, y in get_batches(train_x, train_y): the generator yields
NextBatch ==
    /\ pc = "batch_loop"
    /\ RangeDefined(Len(train_x), n_batches)
    /\ gen_k < RangeLen(Len(train_x), n_batches)
    /\ batch_x' = Yielded(train_x, n_batches, RangeValue(Len(train_x), n_batches, gen_k))
    /\ batch_y' = Yielded(train_y, n_batches, RangeValue(Len(train_y), n_batches, gen_k))
    /\ gen_k' = gen_k + 1
    /\ pc' = "step"
    /\ UNCHANGED <<dataVars, loopVars, cacheVars, splitVars, epochs, n_batches,
                   epoch, iteration, params, steps, val_log, checkpoint, evalVars, acqVars>>

\* the generator is exhausted: the epoch ends
EpochDone ==
    /\ pc = "batch_loop"
    /\ RangeDefined(Len(train_x), n_batches)
    /\ gen_k = RangeLen(Len(train_x), n_batches)
    /\ epoch' = epoch + 1
    /\ pc' = "epoch_loop"
    /\ UNCHANGED <<dataVars, loopVars, cacheVars, splitVars, epochs, n_batches,
                   iteration, gen_k, batch_x, batch_y, params, steps, val_log,
                   checkpoint, evalVars, acqVars>>

\* loss, _ = sess.run([cost, optimizer], feed_dict=feed); iteration += 1
GradientStep ==
    /\ pc = "step"
    /\ steps' = Append(steps, [e |-> epoch, inputs |-> batch_x, labels |-> batch_y])
    /\ params' = params + 1
    /\ iteration' = iteration + 1
    /\ pc' = "val_check"
    /\ UNCHANGED <<dataVars, loopVars, cacheVars, splitVars, epochs, n_batches,
                   epoch, gen_k, batch_x, batch_y, val_log, checkpoint, evalVars, acqVars>>

\* sess.run([cost, optimizer]) raises: the exception leaves the cell, no
\* update is applied and nothing is saved
StepFails ==
    /\ pc = "step"
    /\ pc' = "step_failed"
    /\ UNCHANGED <<dataVars, loopVars, cacheVars, splitVars, trainVars, evalVars,
                   acqVars>>

\* a validation that fetches the optimizer too
ValidateWithOptimizer ==
    /\ pc = "val_check"
    /\ ValDue(iteration)
    /\ val_log' = Append(val_log, [params |-> params, inputs |-> val_x, labels |-> val_y])
    /\ params' = params + 1
    /\ pc' = "batch_loop"
    /\ UNCHANGED <<dataVars, loopVars, cacheVars, splitVars, epochs, n_batches,
                   epoch, iteration, gen_k, batch_x, batch_y, steps,
                   checkpoint, evalVars, acqVars>>

\* if iteration % 5 == 0: val_acc = sess.run(accuracy, feed_dict=feed)
Validate ==
    /\ pc = "val_check"
    /\ ValDue(iteration)
    /\ val_log' = Append(val_log, [params |-> params, inputs |-> val_x, labels |-> val_y])
    /\ pc' = "batch_loop"
    /\ UNCHANGED <<dataVars, loopVars, cacheVars, splitVars, epochs, n_batches,
                   epoch, iteration, gen_k, batch_x, batch_y, params, steps,
                   checkpoint, evalVars, acqVars>>

SkipValidate ==
    /\ pc = "val_check"
    /\ ~ValDue(iteration)
    /\ pc' = "batch_loop"
    /\ UNCHANGED <<dataVars, loopVars, cacheVars, splitVars, trainVars, evalVars, acqVars>>

\* saver.save inside `for e in range(epochs)`: a save after every epoch
SaveCheckpointEarly ==
    /\ pc = "epoch_loop"
    /\ epoch >= 1
    /\ checkpoint' = params
    /\ pc' = IF epoch = epochs THEN "trained" ELSE pc
    /\ UNCHANGED <<dataVars, loopVars, cacheVars, splitVars, epochs, n_batches,
                   epoch, iteration, gen_k, batch_x, batch_y, params, steps,
                   val_log, evalVars, acqVars>>

\* after the last epoch: saver.save(sess, "checkpoints/flowers.ckpt")
SaveCheckpoint ==
    /\ pc = "epoch_loop"
    /\ epoch = epochs
    /\ checkpoint' = params
    /\ pc' = "trained"
    /\ UNCHANGED <<dataVars, loopVars, cacheVars, splitVars, epochs, n_batches,
                   epoch, iteration, gen_k, batch_x, batch_y, params, steps,
                   val_log, evalVars, acqVars>>

\* tf.train.latest_checkpoint('checkpoints'): None when nothing was saved;
\* saver.restore(sess, None) raises ValueError
RestoreDefined(ckpt) == ckpt # NoParams

\* test_img_path = 'flower_photos/roses/...jpg'
TestImage == Image("roses", 1)

\* the test cell: a new session, saver.restore(sess, latest_checkpoint),
\* test_acc = sess.run(accuracy, {inputs_: test_x, labels_: test_y})
TestAccuracy ==
    /\ pc \in {"trained", "train_failed", "step_failed"}
    /\ IF RestoreDefined(checkpoint)
       THEN /\ restored' = checkpoint
            /\ eval_log' = Append(eval_log,
                   [cell |-> "test", params |-> restored',
                    inputs |-> test_x, labels |-> test_y])
            /\ pc' = "tested"
       ELSE /\ pc' = "restore_failed"
            /\ UNCHANGED evalVars
    /\ UNCHANGED <<dataVars, loopVars, cacheVars, splitVars, trainVars, acqVars>>

\* the prediction cell: code = sess.run(vgg.relu6) of the test image, then
\* a new Saver and session, saver.restore(sess, latest_checkpoint),
\* prediction = sess.run(predicted, {inputs_: code})
Predict ==
    /\ pc = "tested"
    /\ RestoreDefined(checkpoint)
    /\ restored' = checkpoint
    /\ eval_log' = Append(eval_log,
           [cell |-> "predict", params |-> restored',
            inputs |-> Relu6(<<TestImage>>, code_dim), labels |-> <<>>])
    /\ pc' = "predicted"
    /\ UNCHANGED <<dataVars, loopVars, cacheVars, splitVars, trainVars, acqVars>>

\* the split the training cell starts from: the holdout taken from the
\* first samples of each class, both index arrays in ascending order
TrainingSplits(labs) ==
    {o \in SplitterOutputs(labs) :
        /\ o.train = Ascending(Range(o.train))
        /\ o.test = Ascending(Range(o.test))
        /\ \A r \in Range(labs) :
             Range(o.test) \cap Members(labs, r)
               = First(Members(labs, r), Cardinality(Range(o.test) \cap Members(labs, r)))}

\* what the split cell leaves for splitter output o
SplitResult(o) ==
    /\ train_idx = o.train
    /\ val_idx = FirstPart(o.test, HalfValLen(o.test))
    /\ test_idx = SecondPart(o.test, HalfValLen(o.test))
    /\ train_x = Take(codes_arr.data, train_idx)
    /\ train_y = Take(labels_vecs, train_idx)
    /\ val_x = Take(codes_arr.data, val_idx)
    /\ val_y = Take(labels_vecs, val_idx)
    /\ test_x = Take(codes_arr.data, test_idx)
    /\ test_y = Take(labels_vecs, test_idx)

InitTrain ==
    /\ \E ds \in {z \in SplitDatasets : SumSeq(z.counts) >= 2} :
          Encoded(ds.dirs, ds.counts)
    /\ SplitterDefined(labels_vecs)
    /\ \E o \in TrainingSplits(labels_vecs) : SplitResult(o)
    /\ pc = "split"
    /\ epochs \in (1..MaxEpochs) \cup {Epochs}
    /\ n_batches \in (1..MaxNBatches) \cup {DefaultNBatches}
    /\ epoch = 0
    /\ iteration = 0
    /\ gen_k = 0
    /\ batch_x = <<>>
    /\ batch_y = <<>>
    /\ params = NoParams
    /\ steps = <<>>
    /\ val_log = <<>>
    /\ checkpoint = NoParams
    /\ restored = NoParams
    /\ eval_log = <<>>
    /\ Downloaded

\* the training cell, from its first statement to saver.save
TrainCell ==
    \/ TrainStart
    \/ EpochStart
    \/ BatchesRaise
    \/ NextBatch
    \/ EpochDone
    \/ GradientStep
    \/ StepFails
    \/ Validate
    \/ SkipValidate
    \/ SaveCheckpoint

NextTrain ==
    \/ TrainCell
    \/ TestAccuracy
    \/ Predict

SpecTrain == InitTrain /\ [][NextTrain]_vars

\* the files 'codes' and 'labels' before the extraction cell: absent, or
\* as an earlier run of the notebook wrote them, then with one image in
\* each of its classes
EarlierCaches ==
    {[codes |-> Absent, labels |-> Absent]} \cup
    {[codes |-> File(ToFile(Relu6(ExtractedImages(SubSeq(ClassNames, 1, k),
                                                   [i \in 1..k |-> 1]), 1))),
      labels |-> File(WriteRow(ExtractedLabels(SubSeq(ClassNames, 1, k),
                                               [i \in 1..k |-> 1])))] :
        k \in 1..MaxEarlier}

\* batch_size = 10
BatchSize == 10

\* two classes of 20 images each
TwoByTwenty == [dirs |-> SubSeq(ClassNames, 1, 2), counts |-> <<20, 20>>]

InitExtract ==
    /\ \E ds \in {x \in Datasets : Len(x.dirs) = Len(x.counts)} \cup {TwoByTwenty} :
          /\ classes = ds.dirs
          /\ nfiles = ds.counts
    /\ batch_size \in (1..MaxBatchSize) \cup {BatchSize}
    /\ code_dim \in 1..MaxDim
    /\ pc = "class_loop"
    /\ NoExtraction
    /\ \E old \in EarlierCaches :
          /\ codes_file = old.codes
          /\ labels_file = old.labels
    /\ NoSplit
    /\ NoTraining
    /\ Downloaded

\* before the first cell: any state of the working directory; vgg16.npy
\* lies in tensorflow_vgg/
InitAcquire ==
    /\ vgg_dir \in BOOLEAN
    /\ vgg_npy \in IF vgg_dir THEN Retrieved ELSE {"absent"}
    /\ archive \in Retrieved
    /\ photos \in Retrieved
    /\ imported = FALSE
    /\ last_cell = CellRecord("none", <<>>, "")
    /\ cell_runs = 0
    /\ pc = "download"
    /\ classes = <<>>
    /\ nfiles = <<>>
    /\ batch_size = 1
    /\ code_dim = 1
    /\ NoExtraction
    /\ codes_file = Absent
    /\ labels_file = Absent
    /\ NoSplit
    /\ NoTraining

NextAcquire ==
    \/ VggCell
    \/ FlowersCell

SpecAcquire == InitAcquire /\ [][NextAcquire]_vars

Next ==
    \/ NextClass
    \/ ExtractionDone
    \/ AddImage
    \/ LoadFails
    \/ ClassDone
    \/ RunBatch
    \/ RunFails
    \/ SkipBatch
    \/ WriteCache
    \/ ReadCache
    \/ EncodeLabels

Spec == InitExtract /\ [][Next]_vars

\* ------------------------------------------------------------ properties
\* the extraction loop has run to its end
ExtractFinished ==
    pc \notin {"class_loop", "file_loop", "check", "extract_failed", "run_failed"}

\* the batches passed to the extractor while class number c was processed
RunsOf(c) == SelectSeq(runs, LAMBDA r : r.each = classes[c])

BatchSizes(rs) == [k \in 1..Len(rs) |-> Len(rs[k].images)]

\* the places (run, position) where an image was submitted
Submissions(img) ==
    UNION {{<<k, j>> : j \in {x \in 1..Len(runs[k].images) : runs[k].images[x] = img}} :
            k \in 1..Len(runs)}

\* C1: when the extraction loop has ended, for every class the sizes of the
\* batches submitted for it sum to its file count, and every file of the
\* class was submitted exactly once, in a batch of its own class
BatchCompleteness ==
    ExtractFinished =>
        \A c \in 1..Len(classes) :
            /\ SumSeq(BatchSizes(RunsOf(c))) = nfiles[c]
            /\ \A f \in 1..nfiles[c] :
                 /\ Cardinality(Submissions(Image(classes[c], f))) = 1
                 /\ \A p \in Submissions(Image(classes[c], f)) :
                      runs[p[1]].each = classes[c]

\* a class whose last batch is a partial one after a full one has been
\* extracted, next to an empty class
BatchCompletenessWitness ==
    /\ pc = "extracted"
    /\ \E c \in 1..Len(classes) :
         nfiles[c] > batch_size /\ nfiles[c] % batch_size # 0
    /\ \E c \in 1..Len(classes) : nfiles[c] = 0

\* row is the extractor's output for some image of class lab
RowOfLabel(row, lab) ==
    \E c \in 1..Len(classes) :
        /\ classes[c] = lab
        /\ \E f \in 1..nfiles[c] : row = Relu6Row(Image(lab, f), code_dim)

\* the reload cell has run on the cache this run has written
ReloadRan == pc \in {"reloaded", "reload_failed", "encoded"} /\ ~codes.none

\* C3: when the extraction loop has ended the feature rows and the labels
\* have the same length and row i is the extractor's output for an image of
\* class labels[i]; and once the cache has been written and read back, the
\* reloaded array has one row per reloaded label, with the same
\* correspondence
Alignment ==
    /\ ExtractFinished =>
         /\ Len(codes.rows) = Len(labels)
         /\ \A i \in 1..Len(labels) : RowOfLabel(codes.rows[i], labels[i])
    /\ ReloadRan =>
         /\ Len(codes_arr.shape) = 2
         /\ labels_arr.shape = <<codes_arr.shape[1]>>
         /\ \A i \in 1..codes_arr.shape[1] :
              RowOfLabel(codes_arr.data[i], labels_arr.data[i])

\* C4: after the cache has been written from N >= 1 rows and N labels and
\* read back, the reloaded labels are the N written labels in order and
\* the reloaded array is N x D with the written rows in order
RoundTrip ==
    ReloadRan =>
        /\ labels_arr = Array(<<Len(labels)>>, labels)
        /\ codes_arr = Array(<<Len(codes.rows), code_dim>>, codes.rows)

\* the number of distinct labels the encoder was fitted on
NumClasses == Cardinality(Range(labels_arr.data))

\* C9: for K >= 2 distinct labels, written and reloaded by this run, every
\* row of labels_vecs has width K, entries 0 or 1, and exactly one entry 1
EncodingWidth ==
    (pc = "encoded" /\ ~codes.none /\ NumClasses >= 2) =>
        \A i \in 1..Len(labels_vecs) :
            /\ Len(labels_vecs[i]) = NumClasses
            /\ Range(labels_vecs[i]) \subseteq {0, 1}
            /\ SumSeq(labels_vecs[i]) = 1

NumSamples == Len(labels_vecs)

\* C5: after the split cell the three index sets are pairwise disjoint, no
\* index is repeated, and together they are exactly 0..N-1
SplitPartition ==
    pc = "split" =>
        /\ Injective(train_idx \o val_idx \o test_idx)
        /\ Range(train_idx) \cap Range(val_idx) = {}
        /\ Range(train_idx) \cap Range(test_idx) = {}
        /\ Range(val_idx) \cap Range(test_idx) = {}
        /\ Range(train_idx) \cup Range(val_idx) \cup Range(test_idx)
             = 0..(NumSamples - 1)

\* a split whose holdout has an odd number of indices
SplitPartitionWitness ==
    /\ pc = "split"
    /\ Len(val_idx) + Len(test_idx) = 3
    /\ Len(train_idx) > 0

\* the sizes train / validation / test for n samples
SplitLens(n) ==
    <<n - NTest(n), NTest(n) \div 2, NTest(n) - NTest(n) \div 2>>

\* C6: the holdout of h indices is halved, |val| = floor(h/2) and
\* |test| = h - |val|, the two differing by at most one, and the three sizes
\* add up to N; they are 2936 / 367 / 367 for N = 3670 and 32 / 4 / 4 for
\* N = 40
HoldoutHalving ==
    pc = "split" =>
        LET h == Len(val_idx) + Len(test_idx)
        IN  /\ h = NTest(NumSamples)
            /\ Len(val_idx) = h \div 2
            /\ Len(test_idx) = h - Len(val_idx)
            /\ Len(test_idx) - Len(val_idx) \in {0, 1}
            /\ Len(train_idx) + Len(val_idx) + Len(test_idx) = NumSamples
            /\ <<Len(train_x), Len(val_x), Len(test_x)>> = SplitLens(NumSamples)
            /\ <<Len(train_y), Len(val_y), Len(test_y)>> = SplitLens(NumSamples)
            /\ NumSamples = 40 => SplitLens(NumSamples) = <<32, 4, 4>>
            /\ <<3670 - NTest(3670), HalfValLen([i \in 1..NTest(3670) |-> i]),
                 Len(SecondPart([i \in 1..NTest(3670) |-> i],
                                HalfValLen([i \in 1..NTest(3670) |-> i])))>>
                 = <<2936, 367, 367>>

\* the 2 x 20 example has been split, and so has an array with an odd
\* holdout
HoldoutHalvingWitness ==
    /\ pc = "split"
    /\ \/ NumSamples = 40 /\ Len(val_idx) = 4 /\ Len(test_idx) = 4
       \/ Len(val_idx) = 1 /\ Len(test_idx) = 2

\* C7: for 2 classes of 20 samples each, every one of the three subsets
\* holds a sample of each class
ClassCoverage ==
    (pc = "split" /\ nfiles = <<20, 20>>) =>
        /\ Range(train_y) = Range(labels_vecs)
        /\ Range(val_y) = Range(labels_vecs)
        /\ Range(test_y) = Range(labels_vecs)

\* C8: running the split cell again on the same arrays gives the same three
\* index sets
SplitDeterministic ==
    [][(pc = "split" /\ pc' = "split") =>
          <<train_idx, val_idx, test_idx>>' = <<train_idx, val_idx, test_idx>>]_vars

\* the gradient steps of epoch k, in order
StepsOf(k) == SelectSeq(steps, LAMBDA st : st.e = k)

\* the iteration of get_batches for epoch k has ended: it was exhausted, or
\* it raised
IterationEnded(k) ==
    \/ k < epoch
    \/ k = epoch /\ pc = "train_failed"

\* C2: when one iteration of get_batches(train_x, train_y) has ended, the
\* minibatches it yielded, laid end to end, are train_x and train_y: every
\* index 0..L-1 was yielded exactly once (the rows of train_x are pairwise
\* different), and so was used in exactly one gradient step of the epoch
TrainingCoverage ==
    \A k \in 0..epochs :
        IterationEnded(k) =>
            /\ Concat([i \in 1..Len(StepsOf(k)) |-> StepsOf(k)[i].inputs]) = train_x
            /\ Concat([i \in 1..Len(StepsOf(k)) |-> StepsOf(k)[i].labels]) = train_y

\* C10: validation accuracy has been evaluated, on the whole validation
\* partition, exactly after the gradient steps number 5, 10, 15, ... counted
\* over all epochs: floor(S / 5) evaluations after S steps (the evaluation
\* after the S-th step is still ahead while the loop is at its check)
ValidationCadence ==
    LET done == IF pc = "val_check" THEN Len(steps) - 1 ELSE Len(steps)
    IN  /\ Len(val_log) = done \div 5
        /\ \A k \in 1..Len(val_log) :
             /\ val_log[k].params = 5 * k
             /\ val_log[k].inputs = val_x
             /\ val_log[k].labels = val_y

\* a run of 2 epochs of 3 steps has ended: its one evaluation came after
\* the fifth step, which is a step of the second epoch
ValidationCadenceWitness ==
    /\ pc = "trained"
    /\ epochs = 2
    /\ n_batches = 3
    /\ Len(steps) = 6
    /\ steps[5].e = 1
    /\ Len(val_log) = 1

\* the training cell is inside its loops
InTrainingLoop == pc \in {"epoch_loop", "batch_loop", "step", "val_check"}

\* C11: on a training set of at least n_batches samples the generator never
\* raises, the loop goes on while fewer than epochs * n_batches gradient
\* steps have been made, never makes more, and the cell ends (checkpoint
\* saved) after exactly epochs * n_batches steps: 100 for epochs = 10 and
\* n_batches = 10
TrainingTermination ==
    Len(train_x) >= n_batches =>
        /\ pc # "train_failed"
        /\ Len(steps) <= epochs * n_batches
        /\ InTrainingLoop => ENABLED TrainCell
        /\ pc = "trained" =>
              /\ Len(steps) = epochs * n_batches
              /\ \A k \in 0..(epochs - 1) : Len(StepsOf(k)) = n_batches
              /\ ~ENABLED TrainCell
              /\ (epochs = 10 /\ n_batches = 10) => Len(steps) = 100

\* the configured run (10 epochs, 10 batches) has ended after 100 steps
TrainingTerminationWitness ==
    /\ pc = "trained"
    /\ epochs = Epochs
    /\ n_batches = DefaultNBatches
    /\ Len(train_x) >= n_batches
    /\ Len(steps) = 100

\* Uninitialized (0), Training (1), Checkpointed (2)
LifecyclePhase ==
    IF checkpoint # NoParams THEN 2 ELSE IF params # NoParams THEN 1 ELSE 0

\* C12: a gradient step is made only on initialised parameters; the
\* checkpoint is written once, after the last gradient step of the last
\* epoch, and holds the parameters of that moment; once it is written no
\* gradient step follows and it is not written again; the lifecycle phase
\* never goes back; the test cell and the prediction cell run on the
\* parameters restored from the checkpoint
ClassifierLifecycle ==
    /\ [][steps' # steps => params # NoParams]_vars
    /\ [][checkpoint' # checkpoint =>
            /\ checkpoint = NoParams
            /\ epoch = epochs
            /\ Len(steps) = epochs * n_batches
            /\ params = Len(steps)
            /\ checkpoint' = params]_vars
    /\ [][checkpoint # NoParams =>
            /\ checkpoint' = checkpoint
            /\ steps' = steps
            /\ params' = params]_vars
    /\ [][LifecyclePhase' >= LifecyclePhase]_vars
    /\ [](\A k \in 1..Len(eval_log) :
            /\ checkpoint # NoParams
            /\ eval_log[k].params = checkpoint)

\* a run of at least two epochs was saved, and tested, and used for a
\* prediction
ClassifierLifecycleWitness ==
    /\ pc = "predicted"
    /\ epochs >= 2
    /\ checkpoint = epochs * n_batches
    /\ Len(eval_log) = 2
    /\ eval_log[1].cell = "test"
    /\ eval_log[2].cell = "predict"

\* C13 as stated: on 32 training samples, an epoch whose minibatch size
\* 32 // n_batches divides 32 makes 32 / batch_size gradient steps
StepsPerEpochByBatchSize ==
    \A k \in 0..(epoch - 1) :
        (/\ Len(train_x) = 32
         /\ n_batches <= 32
         /\ 32 % (32 \div n_batches) = 0) =>
            Len(StepsOf(k)) = 32 \div (32 \div n_batches)

\* C13, amended: on 32 training samples an epoch makes n_batches gradient
\* steps, the last one on the 32 - (n_batches - 1) * batch_size remaining
\* samples; that is 32 / batch_size steps when n_batches divides 32
StepsPerEpoch ==
    \A k \in 0..(epoch - 1) :
        (Len(train_x) = 32 /\ n_batches <= 32) =>
            LET bs == 32 \div n_batches
            IN  /\ Len(StepsOf(k)) = n_batches
                /\ \A i \in 1..(n_batches - 1) : Len(StepsOf(k)[i].inputs) = bs
                /\ Len(StepsOf(k)[n_batches].inputs) = 32 - (n_batches - 1) * bs
                /\ 32 % n_batches = 0 => Len(StepsOf(k)) = 32 \div bs

\* an epoch on 32 samples in 7 batches has ended: six steps on 4 samples
\* and one on 8
StepsPerEpochWitness ==
    /\ Len(train_x) = 32
    /\ n_batches = 7
    /\ epoch >= 1
    /\ Len(StepsOf(0)) = 7
    /\ Len(StepsOf(0)[1].inputs) = 4
    /\ Len(StepsOf(0)[7].inputs) = 8

\* this step is a run of the named download cell
CellRan(cell) == cell_runs' = cell_runs + 1 /\ last_cell'.cell = cell

Did(rec, op) == \E k \in 1..Len(rec.ops) : rec.ops[k] = op

\* C14 as stated: a run of the dataset cell right after a run of it that
\* ended without error downloads and extracts nothing, and so does every
\* run that finds the directory flower_photos
AcquisitionSkipsOnDirectory ==
    [][CellRan("flowers") =>
         /\ (last_cell.cell = "flowers" /\ last_cell.error = "") =>
                last_cell'.ops = <<>>
         /\ IsDir(photos) => last_cell'.ops = <<>>]_vars

\* C14, amended: a run of the dataset cell right after a run of it that
\* ended without error downloads and extracts nothing and changes no file;
\* a run downloads only when flower_photos.tar.gz is absent and extracts
\* only when the directory flower_photos is absent, so it does neither
\* when both exist; the first cell downloads only when vgg16.npy is absent
AcquisitionIdempotent ==
    /\ [][CellRan("flowers") =>
            /\ (last_cell.cell = "flowers" /\ last_cell.error = "") =>
                   /\ last_cell'.ops = <<>>
                   /\ last_cell'.error = ""
                   /\ <<archive, photos>>' = <<archive, photos>>
            /\ Did(last_cell', "download") => ~IsFile(archive)
            /\ Did(last_cell', "extract") => ~IsDir(photos)
            /\ (IsFile(archive) /\ IsDir(photos)) =>
                   /\ last_cell'.ops = <<>>
                   /\ <<archive, photos>>' = <<archive, photos>>]_vars
    /\ [][CellRan("vgg") =>
            (Did(last_cell', "download") => ~IsFile(vgg_npy))]_vars

\* the dataset cell has run twice in a row, first downloading and
\* extracting, then doing nothing
AcquisitionIdempotentWitness ==
    /\ cell_runs = 3
    /\ last_cell = CellRecord("flowers", <<>>, "")
    /\ archive = "complete"
    /\ photos = "complete"

\* C18: when tensorflow_vgg/ does not exist the first cell raises
\* "VGG directory doesn't exist!" without attempting a download and
\* without creating or changing any file
MissingVggDirAborts ==
    [][(CellRan("vgg") /\ ~vgg_dir) =>
         /\ last_cell' = CellRecord("vgg", <<>>, "VGG directory doesn't exist!")
         /\ <<vgg_dir, vgg_npy, archive, photos>>'
              = <<vgg_dir, vgg_npy, archive, photos>>]_vars

\* the first cell has run without tensorflow_vgg/ and raised
MissingVggDirAbortsWitness ==
    /\ ~vgg_dir
    /\ vgg_npy = "absent"
    /\ cell_runs = 1
    /\ last_cell = CellRecord("vgg", <<>>, "VGG directory doesn't exist!")

\* the number of feature rows the file 'codes' holds: the rows this run
\* wrote, none when the write cell raised on codes = None after truncating
\* the file
RowsStored == IF codes.none THEN 0 ELSE Len(codes.rows)

\* the number of labels the file 'labels' holds
LabelsStored ==
    Len(SelectSeq(ReaderRows(labels_file.content, <<>>), LAMBDA r : Len(r) > 0))

\* C15: when the reload cell has run on a file 'codes' that holds another
\* number of rows than the file 'labels' holds labels, it has raised and
\* left no two-dimensional feature array
CacheIntegrity ==
    (/\ pc \in {"reloaded", "reload_failed", "encoded"}
     /\ RowsStored # LabelsStored) =>
        /\ pc = "reload_failed"
        /\ Len(codes_arr.shape) # 2

\* C16: after a failed image load nothing of the extraction is left in
\* labels, batch and codes, and the files 'codes' and 'labels' are as they
\* were before the cell; after a failed training run no checkpoint exists
AllOrNothing ==
    /\ pc = "extract_failed" =>
          /\ labels = <<>>
          /\ batch = <<>>
          /\ codes = None
          /\ \E old \in EarlierCaches :
                codes_file = old.codes /\ labels_file = old.labels
    /\ pc \in {"train_failed", "step_failed"} => checkpoint = NoParams

\* C17: a class directory without files has no batch run for it and no
\* label in labels, and a dataset with such a directory gets through the
\* extraction loop and the cache write without an error of theirs
EmptyClassHarmless ==
    \A c \in 1..Len(classes) :
        nfiles[c] = 0 =>
            /\ RunsOf(c) = <<>>
            /\ classes[c] \notin Range(labels)
            /\ pc # "write_failed"

\* the loop over the files of class number c has ended
ClassFinished(c) ==
    \/ c < ci
    \/ c = ci /\ pc = "class_loop"
    \/ ExtractFinished

\* the file positions of class c at which the rule asks for a submission
DuePositions(c) ==
    {p \in 1..nfiles[c] : p % batch_size = 0 \/ p = nfiles[c]}

\* C19: for a class whose files have all been processed, a batch was
\* submitted exactly at the file positions that are a multiple of
\* batch_size or the class's file count, each batch holding the files since
\* the previous submission: 1..batch_size images, batch_size in all but
\* the last, ceil(n / batch_size) extractor calls for n > 0 files
BatchSubmissionRule ==
    \A c \in 1..Len(classes) :
        ClassFinished(c) =>
            LET rs == RunsOf(c)
                last(k) == rs[k].images[Len(rs[k].images)].pos
            IN  /\ \A k \in 1..Len(rs) :
                     /\ Len(rs[k].images) \in 1..batch_size
                     /\ k < Len(rs) => Len(rs[k].images) = batch_size
                     /\ \A j \in 1..Len(rs[k].images) :
                          rs[k].images[j]
                            = Image(classes[c], last(k) - Len(rs[k].images) + j)
                     /\ k > 1 => last(k - 1) = last(k) - Len(rs[k].images)
                /\ {last(k) : k \in 1..Len(rs)} = DuePositions(c)
                /\ Len(rs) = Cardinality(DuePositions(c))
                /\ Len(rs) = (nfiles[c] + batch_size - 1) \div batch_size

\* a class of 3 files has been extracted in batches of 2: two calls, the
\* second on the one remaining file
BatchSubmissionRuleWitness ==
    /\ pc = "extracted"
    /\ batch_size = 2
    /\ \E c \in 1..Len(classes) :
         /\ nfiles[c] = 3
         /\ BatchSizes(RunsOf(c)) = <<2, 1>>

\* the number of files in the classes listed before class number c
FilesBefore(c) == SumSeq(SubSeq(nfiles, 1, c - 1))

\* C20: when the extraction loop has ended, labels is one block per class
\* in the order of the class listing, the block of a class holding its
\* label once per file, and the rows of codes are the extractor's outputs
\* for the files in the same order: file f of class c is at place
\* (number of files of the classes before c) + f. For 2 classes of 20
\* files and batch_size 10 that is 40 labels and rows, 20 of the first
\* class listed, then 20 of the second
FeatureLabelOrder ==
    ExtractFinished =>
        /\ Len(labels) = SumSeq(nfiles)
        /\ Len(codes.rows) = SumSeq(nfiles)
        /\ \A c \in 1..Len(classes) :
             \A f \in 1..nfiles[c] :
                 /\ labels[FilesBefore(c) + f] = classes[c]
                 /\ codes.rows[FilesBefore(c) + f]
                      = Relu6Row(Image(classes[c], f), code_dim)
        /\ (nfiles = <<20, 20>> /\ batch_size = 10) =>
              /\ Len(labels) = 40
              /\ \A i \in 1..20 : labels[i] = classes[1]
              /\ \A i \in 21..40 : labels[i] = classes[2]

\* the 2 x 20 example has been extracted in four batches of 10
FeatureLabelOrderWitness ==
    /\ pc = "extracted"
    /\ nfiles = <<20, 20>>
    /\ batch_size = 10
    /\ Len(runs) = 4
    /\ Len(labels) = 40
    /\ Len(codes.rows) = 40

\* C21: a validation inside the training loop, the test cell and the
\* prediction cell change neither the trained parameters nor the
\* checkpoint, and the two cells run on the checkpoint's parameters as
\* restored; the parameters change only by a gradient step (after they were
\* initialised at the start of the training cell), by one update each; the
\* checkpoint changes only by the save that ends the training cell
EvaluationFrame ==
    /\ [][val_log' # val_log =>
            /\ val_log' = Append(val_log, [params |-> params, inputs |-> val_x,
                                           labels |-> val_y])
            /\ params' = params
            /\ checkpoint' = checkpoint]_vars
    /\ [][eval_log' # eval_log =>
            /\ params' = params
            /\ checkpoint' = checkpoint
            /\ restored' = checkpoint
            /\ eval_log'[Len(eval_log')].params = checkpoint]_vars
    /\ [][params' # params =>
            \/ params = NoParams /\ params' = 0 /\ pc = "split"
            \/ /\ pc = "step"
               /\ Len(steps') = Len(steps) + 1
               /\ params' = params + 1]_vars
    /\ [][checkpoint' # checkpoint =>
            /\ pc = "epoch_loop"
            /\ epoch = epochs
            /\ pc' = "trained"
            /\ checkpoint' = params]_vars

\* a run with a validation has been saved, tested and used for a
\* prediction, and the checkpoint still holds the parameters after the
\* last gradient step
EvaluationFrameWitness ==
    /\ pc = "predicted"
    /\ Len(val_log) >= 1
    /\ Len(eval_log) = 2
    /\ params = Len(steps)
    /\ checkpoint = params
    /\ restored = checkpoint

====
